---- MODULE Spec2Model ----
(***************************************************************************)
(* File-based calculator IPC: one server (server.c), its forked worker,    *)
(* and several clients (client.c) that share the inbox file toServer.txt,  *)
(* one outbox file <pid>_toClient.txt per client, and SIGUSR1/SIGALRM.     *)
(*                                                                         *)
(* Texts are sequences of one-character strings.  Environment faults of    *)
(* regular-file I/O (write, fstat, malloc, fork returning an error) are    *)
(* outside the model.  Timers are untimed: an armed alarm may fire at any  *)
(* step of its process.                                                    *)
(***************************************************************************)
EXTENDS Integers, Sequences, FiniteSets, TLC

(* ------------------------------ bounds --------------------------------- *)
NumClients == 2
MaxOperand == 2

(* ------------------------- program constants --------------------------- *)
MAX_RETRIES == 10

Clients == 1..NumClients

\* process identity of client i (getpid() in client.c); two digits, distinct
Pid(i) == 10 + 7 * i

Pids == {Pid(i) : i \in Clients}

NoFile == <<"absent">>
NoText == <<"none">>
NoReq == [clientPID |-> 0, num1 |-> 0, operation |-> 0, num2 |-> 0]

(* --------------------------- text helpers ------------------------------ *)
DigitChars == <<"0", "1", "2", "3", "4", "5", "6", "7", "8", "9">>

IsDigit(ch) == \E d \in 1..10 : DigitChars[d] = ch

DigitVal(ch) == (CHOOSE d \in 1..10 : DigitChars[d] = ch) - 1

RECURSIVE DigitsOf(_)
\* the digits of a positive number, most significant first
DigitsOf(n) == IF n = 0 THEN <<>> ELSE Append(DigitsOf(n \div 10), DigitChars[(n % 10) + 1])

\* the decimal text of an integer as a user types it on the command line
Decimal(n) == IF n = 0 THEN <<"0">> ELSE IF n > 0 THEN DigitsOf(n) ELSE <<"-">> \o DigitsOf(-n)

\* intToStr (server.c and client.c): the digit loop runs only while num > 0
intToStr(num) == IF num = 0 THEN <<"0">> ELSE IF num > 0 THEN DigitsOf(num) ELSE <<>>

RECURSIVE AtoiDigits(_, _)
AtoiDigits(s, acc) == IF s = <<>> \/ ~IsDigit(Head(s)) THEN acc ELSE AtoiDigits(Tail(s), acc * 10 + DigitVal(Head(s)))

\* atoi: optional sign, then the leading digits
atoi(s) == IF s = <<>> THEN 0 ELSE IF Head(s) = "-" THEN - AtoiDigits(Tail(s), 0) ELSE IF Head(s) = "+" THEN AtoiDigits(Tail(s), 0) ELSE AtoiDigits(s, 0)

RECURSIVE Tokens(_, _, _)
\* strtok(buffer, " "): the maximal space-free runs of s, in order
Tokens(s, cur, acc) == IF s = <<>> THEN (IF cur = <<>> THEN acc ELSE Append(acc, cur)) ELSE IF Head(s) = " " THEN Tokens(Tail(s), <<>>, IF cur = <<>> THEN acc ELSE Append(acc, cur)) ELSE Tokens(Tail(s), Append(cur, Head(s)), acc)

\* C integer division truncates toward zero
TruncDiv(a, b) == IF (a >= 0) = (b > 0) THEN (IF a >= 0 THEN a \div b ELSE (-a) \div (-b)) ELSE - ((IF a >= 0 THEN a ELSE -a) \div (IF b > 0 THEN b ELSE -b))

(* ------------------------------ state ---------------------------------- *)
VARIABLES pc, retries, alarmC, sigC, argv, reported, inbox, inboxOwner, outbox, spc, sigS, alarmS, isRequestReceived, buffer, req, wpc, placedSeq, servedSeq, notified, createsSinceDelete, wokenEarly

\* the scheduler simulator (main.c), a program of its own: the process table,
\* main's position (mpc), the position inside the running function (lpc), its
\* locals, the means it has returned so far, and what each process was given
VARIABLES processes, mpc, lpc, tempProcesses, currentTime, completed, idx, slots, top, front, rear, results, cpu, finishes

schedVars == <<processes, mpc, lpc, tempProcesses, currentTime, completed, idx, slots, top, front, rear, results, cpu, finishes>>

ipcVars == <<pc, retries, alarmC, sigC, argv, reported, inbox, inboxOwner, outbox, spc, sigS, alarmS, isRequestReceived, buffer, req, wpc, placedSeq, servedSeq, notified, createsSinceDelete, wokenEarly>>

vars == <<ipcVars, schedVars>>

clientVars == <<pc, retries, alarmC, sigC, argv, reported>>
serverVars == <<spc, sigS, alarmS, isRequestReceived, buffer, req>>
ghostVars == <<placedSeq, servedSeq, notified, createsSinceDelete, wokenEarly>>

ClientAlive(c) == pc[c] \in {"start", "retry", "write", "kill", "suspend", "pause", "poll", "read", "remove"}

ClientInMain(c) == pc[c] \in {"retry", "write", "kill", "suspend", "pause"}

ClientEnded(c) == pc[c] \in {"exit_result", "exit_timeout", "exit_contention"}

ServerAlive == spc \notin {"exited", "crashed"}

\* the request line client c writes: "{clientPID} {num1} {operation} {num2}"
RequestText(c) == intToStr(Pid(c)) \o <<" ">> \o Decimal(argv[c].num1) \o <<" ">> \o Decimal(argv[c].operation) \o <<" ">> \o Decimal(argv[c].num2)

\* the switch without its default case: an unknown operation code falls through
HasResult_NoDefault(r) == r.operation # 4 \/ r.num2 # 0

\* the switch of performCalculation: does it reach a result?
HasResult(r) == r.operation \in {1, 2, 3} \/ (r.operation = 4 /\ r.num2 # 0)

Result(r) == CASE r.operation = 1 -> r.num1 + r.num2 [] r.operation = 2 -> r.num1 - r.num2 [] r.operation = 3 -> r.num1 * r.num2 [] OTHER -> TruncDiv(r.num1, r.num2)

(* ------------------------------ inputs --------------------------------- *)
Operands == (-MaxOperand)..MaxOperand

OpCodes == 0..5

AllArgs == [num1 : Operands, operation : OpCodes, num2 : Operands]

\* the requests used when several clients run together
RaceArgs == {[num1 |-> 5, operation |-> 1, num2 |-> 3], [num1 |-> 10, operation |-> 4, num2 |-> 2], [num1 |-> 1, operation |-> 2, num2 |-> 2], [num1 |-> 2, operation |-> 4, num2 |-> 0], [num1 |-> 1, operation |-> 5, num2 |-> 1]}

\* the scheduler simulator is not running
SchedAbsent ==
    /\ processes = <<>>
    /\ mpc = "absent"
    /\ lpc = "entry"
    /\ tempProcesses = <<>>
    /\ currentTime = 0
    /\ completed = 0
    /\ idx = 0
    /\ slots = <<>>
    /\ top = -1
    /\ front = 0
    /\ rear = -1
    /\ results = <<>>
    /\ cpu = <<>>
    /\ finishes = <<>>

IpcInit(launched, args) ==
    /\ pc = [c \in Clients |-> IF c \in launched THEN "start" ELSE "absent"]
    /\ retries = [c \in Clients |-> 0]
    /\ alarmC = [c \in Clients |-> FALSE]
    /\ sigC = [c \in Clients |-> FALSE]
    /\ argv \in [Clients -> args]
    /\ \A c \in Clients \ launched : argv[c] = CHOOSE a \in args : TRUE
    /\ reported = [c \in Clients |-> NoText]
    /\ inbox = NoFile
    /\ inboxOwner = 0
    /\ outbox = [p \in Pids |-> NoFile]
    /\ spc = "idle"
    /\ sigS = FALSE
    /\ alarmS = TRUE
    /\ isRequestReceived = FALSE
    /\ buffer = <<>>
    /\ req = NoReq
    /\ wpc = "none"
    /\ placedSeq = <<>>
    /\ servedSeq = <<>>
    /\ notified = {}
    /\ createsSinceDelete = 0
    /\ wokenEarly = {}

InitWith(launched, args) == IpcInit(launched, args) /\ SchedAbsent

Init == InitWith(Clients, RaceArgs)

(* ------------------------------ client --------------------------------- *)
\* main without the alarm(RESPONSE_TIMEOUT_SECONDS) call
ClientStart_NoAlarm(c) ==
    /\ pc[c] = "start"
    /\ pc' = [pc EXCEPT ![c] = "retry"]
    /\ retries' = [retries EXCEPT ![c] = 0]
    /\ UNCHANGED <<alarmC, sigC, argv, reported, inbox, inboxOwner, outbox, wpc>>
    /\ UNCHANGED serverVars
    /\ UNCHANGED ghostVars
    /\ UNCHANGED schedVars

\* client.c main, lines 194-216: handlers installed, alarm armed, retries = 0
ClientStart(c) ==
    /\ pc[c] = "start"
    /\ pc' = [pc EXCEPT ![c] = "retry"]
    /\ alarmC' = [alarmC EXCEPT ![c] = TRUE]
    /\ retries' = [retries EXCEPT ![c] = 0]
    /\ UNCHANGED <<sigC, argv, reported, inbox, inboxOwner, outbox, wpc>>
    /\ UNCHANGED serverVars
    /\ UNCHANGED ghostVars
    /\ UNCHANGED schedVars

\* the open without O_EXCL: it succeeds over an existing inbox
CreateSucceeds_NoExcl == TRUE

\* open("./toServer.txt", O_WRONLY | O_CREAT | O_EXCL): fails when the file exists
CreateSucceeds == inbox = NoFile

\* the retry loop with the failed open ignored: the client goes on as if it held the inbox
ClientCreate_IgnoreFail(c) ==
    /\ pc[c] = "retry"
    /\ IF CreateSucceeds
       THEN /\ inbox' = <<>>
            /\ inboxOwner' = Pid(c)
            /\ placedSeq' = Append(placedSeq, c)
            /\ createsSinceDelete' = createsSinceDelete + 1
            /\ UNCHANGED retries
       ELSE /\ retries' = [retries EXCEPT ![c] = retries[c] + 1]
            /\ UNCHANGED <<inbox, inboxOwner, placedSeq, createsSinceDelete>>
    /\ pc' = [pc EXCEPT ![c] = "kill"]
    /\ UNCHANGED <<alarmC, sigC, argv, reported, outbox, wpc, servedSeq, notified, wokenEarly>>
    /\ UNCHANGED serverVars
    /\ UNCHANGED schedVars

\* the retry loop bounded by retries <= MAX_RETRIES: one attempt too many
ClientCreate_OffByOne(c) ==
    /\ pc[c] = "retry"
    /\ IF CreateSucceeds
       THEN /\ inbox' = <<>>
            /\ inboxOwner' = Pid(c)
            /\ pc' = [pc EXCEPT ![c] = "write"]
            /\ placedSeq' = Append(placedSeq, c)
            /\ createsSinceDelete' = createsSinceDelete + 1
            /\ UNCHANGED <<retries, alarmC>>
       ELSE /\ retries' = [retries EXCEPT ![c] = retries[c] + 1]
            /\ pc' = [pc EXCEPT ![c] = IF retries[c] + 1 <= MAX_RETRIES THEN "retry" ELSE "exit_contention"]
            /\ alarmC' = [alarmC EXCEPT ![c] = IF retries[c] + 1 <= MAX_RETRIES THEN alarmC[c] ELSE FALSE]
            /\ UNCHANGED <<inbox, inboxOwner, placedSeq, createsSinceDelete>>
    /\ sigC' = [sigC EXCEPT ![c] = IF pc'[c] = "exit_contention" THEN FALSE ELSE sigC[c]]
    /\ UNCHANGED <<argv, reported, outbox, wpc, servedSeq, notified, wokenEarly>>
    /\ UNCHANGED serverVars
    /\ UNCHANGED schedVars

\* client.c main, lines 217-239 and 252-258: one pass of the retry loop up to the open
ClientCreate(c) ==
    /\ pc[c] = "retry"
    /\ IF CreateSucceeds
       THEN /\ inbox' = <<>>
            /\ inboxOwner' = Pid(c)
            /\ pc' = [pc EXCEPT ![c] = "write"]
            /\ placedSeq' = Append(placedSeq, c)
            /\ createsSinceDelete' = createsSinceDelete + 1
            /\ UNCHANGED <<retries, alarmC>>
       ELSE /\ retries' = [retries EXCEPT ![c] = retries[c] + 1]
            /\ pc' = [pc EXCEPT ![c] = IF retries[c] + 1 < MAX_RETRIES THEN "retry" ELSE "exit_contention"]
            /\ alarmC' = [alarmC EXCEPT ![c] = IF retries[c] + 1 < MAX_RETRIES THEN alarmC[c] ELSE FALSE]
            /\ UNCHANGED <<inbox, inboxOwner, placedSeq, createsSinceDelete>>
    /\ sigC' = [sigC EXCEPT ![c] = IF pc'[c] = "exit_contention" THEN FALSE ELSE sigC[c]]
    /\ UNCHANGED <<argv, reported, outbox, wpc, servedSeq, notified, wokenEarly>>
    /\ UNCHANGED serverVars
    /\ UNCHANGED schedVars

\* main leaving the loop without the write(): the inbox stays as it was created
ClientWrite_Skipped(c) ==
    /\ pc[c] = "write"
    /\ pc' = [pc EXCEPT ![c] = "kill"]
    /\ UNCHANGED <<retries, alarmC, sigC, argv, reported, inbox, inboxOwner, outbox, wpc>>
    /\ UNCHANGED serverVars
    /\ UNCHANGED ghostVars
    /\ UNCHANGED schedVars

\* client.c main, lines 241-246: write the request line, close, leave the loop
\* (the write goes to the file the client opened: nothing shows under the
\* name toServer.txt when that file has been removed meanwhile)
ClientWrite(c) ==
    /\ pc[c] = "write"
    /\ inbox' = (IF inboxOwner = Pid(c) THEN RequestText(c) ELSE inbox)
    /\ pc' = [pc EXCEPT ![c] = "kill"]
    /\ UNCHANGED <<retries, alarmC, sigC, argv, reported, inboxOwner, outbox, wpc>>
    /\ UNCHANGED serverVars
    /\ UNCHANGED ghostVars
    /\ UNCHANGED schedVars

\* client.c main, lines 261-268: kill(serverPID, SIGUSR1); the outcome is only printed
ClientNotify(c) ==
    /\ pc[c] = "kill"
    /\ sigS' = (IF ServerAlive THEN TRUE ELSE sigS)
    /\ pc' = [pc EXCEPT ![c] = "suspend"]
    /\ UNCHANGED <<retries, alarmC, sigC, argv, reported, inbox, inboxOwner, outbox, wpc>>
    /\ UNCHANGED <<spc, alarmS, isRequestReceived, buffer, req>>
    /\ notified' = notified \cup {c}
    /\ UNCHANGED <<placedSeq, servedSeq, createsSinceDelete, wokenEarly>>
    /\ UNCHANGED schedVars

\* client.c main, line 273: pause(), the client suspends until a signal arrives
ClientSuspend(c) ==
    /\ pc[c] = "suspend"
    /\ pc' = [pc EXCEPT ![c] = "pause"]
    /\ UNCHANGED <<retries, alarmC, sigC, argv, reported, inbox, inboxOwner, outbox, wpc>>
    /\ UNCHANGED serverVars
    /\ UNCHANGED ghostVars
    /\ UNCHANGED schedVars

\* signalHandler with alarm(0) moved to its first line, before the poll loop
ClientSignal_DisarmsFirst(c) ==
    /\ sigC[c]
    /\ ClientInMain(c)
    /\ sigC' = [sigC EXCEPT ![c] = FALSE]
    /\ alarmC' = [alarmC EXCEPT ![c] = FALSE]
    /\ pc' = [pc EXCEPT ![c] = "poll"]
    /\ wokenEarly' = (IF pc[c] = "suspend" THEN wokenEarly \cup {c} ELSE wokenEarly)
    /\ UNCHANGED <<retries, argv, reported, inbox, inboxOwner, outbox, wpc>>
    /\ UNCHANGED serverVars
    /\ UNCHANGED <<placedSeq, servedSeq, notified, createsSinceDelete>>
    /\ UNCHANGED schedVars

\* a handler that only takes note of the signal: main goes on, and a signal
\* that came before pause() wakes nobody
ClientSignal_NoteOnly(c) ==
    /\ sigC[c]
    /\ ClientInMain(c)
    /\ sigC' = [sigC EXCEPT ![c] = FALSE]
    /\ pc' = [pc EXCEPT ![c] = IF pc[c] = "pause" THEN "poll" ELSE pc[c]]
    /\ wokenEarly' = (IF pc[c] = "suspend" THEN wokenEarly \cup {c} ELSE wokenEarly)
    /\ UNCHANGED <<retries, alarmC, argv, reported, inbox, inboxOwner, outbox, wpc>>
    /\ UNCHANGED serverVars
    /\ UNCHANGED <<placedSeq, servedSeq, notified, createsSinceDelete>>
    /\ UNCHANGED schedVars

\* delivery of a pending SIGUSR1 to the client: signalHandler starts (client.c 67-71),
\* wherever main stands; wokenEarly notes a delivery between kill() and pause()
ClientSignal(c) ==
    /\ sigC[c]
    /\ ClientInMain(c)
    /\ sigC' = [sigC EXCEPT ![c] = FALSE]
    /\ pc' = [pc EXCEPT ![c] = "poll"]
    /\ wokenEarly' = (IF pc[c] = "suspend" THEN wokenEarly \cup {c} ELSE wokenEarly)
    /\ UNCHANGED <<retries, alarmC, argv, reported, inbox, inboxOwner, outbox, wpc>>
    /\ UNCHANGED serverVars
    /\ UNCHANGED <<placedSeq, servedSeq, notified, createsSinceDelete>>
    /\ UNCHANGED schedVars

\* client.c signalHandler, lines 76-81: the poll loop ends when the outbox exists; alarm(0)
ClientPoll(c) ==
    /\ pc[c] = "poll"
    /\ outbox[Pid(c)] # NoFile
    /\ alarmC' = [alarmC EXCEPT ![c] = FALSE]
    /\ pc' = [pc EXCEPT ![c] = "read"]
    /\ UNCHANGED <<retries, sigC, argv, reported, inbox, inboxOwner, outbox, wpc>>
    /\ UNCHANGED serverVars
    /\ UNCHANGED ghostVars
    /\ UNCHANGED schedVars

\* client.c signalHandler, lines 84-100: open, read and print the outbox content
ClientRead(c) ==
    /\ pc[c] = "read"
    /\ outbox[Pid(c)] # NoFile
    /\ reported' = [reported EXCEPT ![c] = outbox[Pid(c)]]
    /\ pc' = [pc EXCEPT ![c] = "remove"]
    /\ UNCHANGED <<retries, alarmC, sigC, argv, inbox, inboxOwner, outbox, wpc>>
    /\ UNCHANGED serverVars
    /\ UNCHANGED ghostVars
    /\ UNCHANGED schedVars

\* signalHandler exiting without the remove(responseFile) call
ClientRemove_KeepsOutbox(c) ==
    /\ pc[c] = "remove"
    /\ pc' = [pc EXCEPT ![c] = "exit_result"]
    /\ sigC' = [sigC EXCEPT ![c] = FALSE]
    /\ UNCHANGED <<retries, alarmC, argv, reported, inbox, inboxOwner, outbox, wpc>>
    /\ UNCHANGED serverVars
    /\ UNCHANGED ghostVars
    /\ UNCHANGED schedVars

\* client.c signalHandler, lines 103-108: remove the outbox and exit
ClientRemove(c) ==
    /\ pc[c] = "remove"
    /\ outbox' = [outbox EXCEPT ![Pid(c)] = NoFile]
    /\ pc' = [pc EXCEPT ![c] = "exit_result"]
    /\ sigC' = [sigC EXCEPT ![c] = FALSE]
    /\ UNCHANGED <<retries, alarmC, argv, reported, inbox, inboxOwner, wpc>>
    /\ UNCHANGED serverVars
    /\ UNCHANGED ghostVars
    /\ UNCHANGED schedVars

\* timerHandler removing toServer.txt before it exits
ClientTimer_RemovesInbox(c) ==
    /\ alarmC[c]
    /\ ClientAlive(c)
    /\ alarmC' = [alarmC EXCEPT ![c] = FALSE]
    /\ pc' = [pc EXCEPT ![c] = "exit_timeout"]
    /\ sigC' = [sigC EXCEPT ![c] = FALSE]
    /\ inbox' = NoFile
    /\ inboxOwner' = 0
    /\ UNCHANGED <<retries, argv, reported, outbox, wpc>>
    /\ UNCHANGED serverVars
    /\ UNCHANGED ghostVars
    /\ UNCHANGED schedVars

\* client.c timerHandler, lines 121-124: SIGALRM ends the call with the failure line
ClientTimer(c) ==
    /\ alarmC[c]
    /\ ClientAlive(c)
    /\ alarmC' = [alarmC EXCEPT ![c] = FALSE]
    /\ pc' = [pc EXCEPT ![c] = "exit_timeout"]
    /\ sigC' = [sigC EXCEPT ![c] = FALSE]
    /\ UNCHANGED <<retries, argv, reported, inbox, inboxOwner, outbox, wpc>>
    /\ UNCHANGED serverVars
    /\ UNCHANGED ghostVars
    /\ UNCHANGED schedVars

(* ------------------------------ server --------------------------------- *)
\* server.c signalHandler, lines 217-224: a pending SIGUSR1 is delivered; open the inbox
ServerOpen ==
    /\ spc = "idle"
    /\ sigS
    /\ sigS' = FALSE
    /\ spc' = (IF inbox = NoFile THEN "exited" ELSE "read")
    /\ UNCHANGED <<alarmS, isRequestReceived, buffer, req>>
    /\ UNCHANGED clientVars
    /\ UNCHANGED <<inbox, inboxOwner, outbox, wpc>>
    /\ UNCHANGED ghostVars
    /\ UNCHANGED schedVars

\* server.c signalHandler, lines 226-254: fstat, read the whole file, close
ServerRead ==
    /\ spc = "read"
    /\ buffer' = (IF inbox = NoFile THEN <<>> ELSE inbox)
    /\ spc' = "remove"
    /\ UNCHANGED <<sigS, alarmS, isRequestReceived, req>>
    /\ UNCHANGED clientVars
    /\ UNCHANGED <<inbox, inboxOwner, outbox, wpc>>
    /\ UNCHANGED ghostVars
    /\ UNCHANGED schedVars

\* signalHandler going on to parse without the remove("toServer.txt") call
ServerRemove_KeepsInbox ==
    /\ spc = "remove"
    /\ spc' = "parse"
    /\ UNCHANGED <<sigS, alarmS, isRequestReceived, buffer, req>>
    /\ UNCHANGED clientVars
    /\ UNCHANGED <<inbox, inboxOwner, outbox, wpc>>
    /\ UNCHANGED ghostVars
    /\ UNCHANGED schedVars

\* server.c signalHandler, lines 257-261: remove("toServer.txt")
ServerRemove ==
    /\ spc = "remove"
    /\ IF inbox = NoFile
       THEN /\ spc' = "exited"
            /\ UNCHANGED <<inbox, inboxOwner, createsSinceDelete>>
       ELSE /\ spc' = "parse"
            /\ inbox' = NoFile
            /\ inboxOwner' = 0
            /\ createsSinceDelete' = 0
    /\ UNCHANGED <<sigS, alarmS, isRequestReceived, buffer, req>>
    /\ UNCHANGED clientVars
    /\ UNCHANGED <<outbox, wpc, placedSeq, servedSeq, notified, wokenEarly>>
    /\ UNCHANGED schedVars

\* atoi(token) where strtok may have returned NULL: the outcome that does not
\* fault reads the missing field as 0
Field(t, i) == IF i <= Len(t) THEN atoi(t[i]) ELSE 0

\* server.c parseInput, lines 54-72: four strtok tokens, each through atoi
parseInput(buf) == LET t == Tokens(buf, <<>>, <<>>) IN [clientPID |-> Field(t, 1), num1 |-> Field(t, 2), operation |-> Field(t, 3), num2 |-> Field(t, 4)]

\* signalHandler without the isRequestReceived = 1 assignment
ServerParse_NoMark ==
    /\ spc = "parse"
    /\ \/ /\ Len(Tokens(buffer, <<>>, <<>>)) < 4
          /\ spc' = "crashed"
          /\ UNCHANGED req
       \/ /\ req' = parseInput(buffer)
          /\ spc' = "fork"
    /\ UNCHANGED <<sigS, alarmS, buffer, isRequestReceived>>
    /\ UNCHANGED clientVars
    /\ UNCHANGED <<inbox, inboxOwner, outbox, wpc>>
    /\ UNCHANGED ghostVars
    /\ UNCHANGED schedVars

\* server.c signalHandler, lines 263-268: parse, then isRequestReceived = 1.
\* With fewer than four tokens strtok returns NULL and atoi(NULL) is undefined:
\* the server either faults inside parseInput or goes on with the field as 0.
ServerParse ==
    /\ spc = "parse"
    /\ \/ /\ Len(Tokens(buffer, <<>>, <<>>)) < 4
          /\ spc' = "crashed"
          /\ UNCHANGED <<req, isRequestReceived>>
       \/ /\ req' = parseInput(buffer)
          /\ isRequestReceived' = TRUE
          /\ spc' = "fork"
    /\ UNCHANGED <<sigS, alarmS, buffer>>
    /\ UNCHANGED clientVars
    /\ UNCHANGED <<inbox, inboxOwner, outbox, wpc>>
    /\ UNCHANGED ghostVars
    /\ UNCHANGED schedVars

\* server.c signalHandler, lines 271-284: fork the worker
ServerFork ==
    /\ spc = "fork"
    /\ wpc' = "calc"
    /\ spc' = "wait"
    /\ servedSeq' = Append(servedSeq, req.clientPID)
    /\ UNCHANGED <<sigS, alarmS, isRequestReceived, buffer, req>>
    /\ UNCHANGED clientVars
    /\ UNCHANGED <<inbox, inboxOwner, outbox, placedSeq, notified, createsSinceDelete, wokenEarly>>
    /\ UNCHANGED schedVars

\* signalHandler returning without wait(NULL): the worker is left running
ServerWait_NoWait ==
    /\ spc = "wait"
    /\ spc' = "idle"
    /\ UNCHANGED <<sigS, alarmS, isRequestReceived, buffer, req>>
    /\ UNCHANGED clientVars
    /\ UNCHANGED <<inbox, inboxOwner, outbox, wpc>>
    /\ UNCHANGED ghostVars
    /\ UNCHANGED schedVars

\* signalHandler looping back to its fork() after the wait: the request is dispatched again
ServerWait_Redispatch ==
    /\ spc = "wait"
    /\ wpc = "exited"
    /\ wpc' = "none"
    /\ spc' = "fork"
    /\ UNCHANGED <<sigS, alarmS, isRequestReceived, buffer, req>>
    /\ UNCHANGED clientVars
    /\ UNCHANGED <<inbox, inboxOwner, outbox>>
    /\ UNCHANGED ghostVars
    /\ UNCHANGED schedVars

\* server.c signalHandler, lines 285-288: wait(NULL) returns, the handler returns
ServerWait ==
    /\ spc = "wait"
    /\ wpc = "exited"
    /\ wpc' = "none"
    /\ spc' = "idle"
    /\ UNCHANGED <<sigS, alarmS, isRequestReceived, buffer, req>>
    /\ UNCHANGED clientVars
    /\ UNCHANGED <<inbox, inboxOwner, outbox>>
    /\ UNCHANGED ghostVars
    /\ UNCHANGED schedVars

\* timerHandler without the isRequestReceived test: every idle-timeout ends the server
ServerTimer_AlwaysExits ==
    /\ alarmS
    /\ ServerAlive
    /\ alarmS' = FALSE
    /\ spc' = "exited"
    /\ UNCHANGED <<sigS, isRequestReceived, buffer, req>>
    /\ UNCHANGED clientVars
    /\ UNCHANGED <<inbox, inboxOwner, outbox, wpc>>
    /\ UNCHANGED ghostVars
    /\ UNCHANGED schedVars

\* server.c timerHandler, lines 301-306: the one alarm(60) of main fires
ServerTimer ==
    /\ alarmS
    /\ ServerAlive
    /\ alarmS' = FALSE
    /\ spc' = (IF ~isRequestReceived THEN "exited" ELSE spc)
    /\ UNCHANGED <<sigS, isRequestReceived, buffer, req>>
    /\ UNCHANGED clientVars
    /\ UNCHANGED <<inbox, inboxOwner, outbox, wpc>>
    /\ UNCHANGED ghostVars
    /\ UNCHANGED schedVars

(* ------------------------------ worker --------------------------------- *)
\* the worker naming the outbox after another identity than the request's
WorkerTarget_Other == CHOOSE p \in Pids : p # req.clientPID

\* the outbox the worker opens: "{clientPID}_toClient.txt"
WorkerTarget == req.clientPID

\* performCalculation sending its kill() right after the open(), before the write
WorkerCalc_NotifiesFirst ==
    /\ wpc = "calc"
    /\ IF HasResult(req) /\ WorkerTarget \in Pids
       THEN /\ outbox' = [outbox EXCEPT ![WorkerTarget] = <<>>]
            /\ sigC' = [c \in Clients |-> IF Pid(c) = req.clientPID /\ ClientAlive(c) /\ pc[c] # "start" THEN TRUE ELSE sigC[c]]
            /\ wpc' = "write"
       ELSE /\ wpc' = "exited"
            /\ UNCHANGED <<outbox, sigC>>
    /\ UNCHANGED <<pc, retries, alarmC, argv, reported>>
    /\ UNCHANGED serverVars
    /\ UNCHANGED <<inbox, inboxOwner>>
    /\ UNCHANGED ghostVars
    /\ UNCHANGED schedVars

\* server.c performCalculation, lines 140-173: the switch, then create/truncate the outbox
WorkerCalc ==
    /\ wpc = "calc"
    /\ IF HasResult(req) /\ WorkerTarget \in Pids
       THEN /\ outbox' = [outbox EXCEPT ![WorkerTarget] = <<>>]
            /\ wpc' = "write"
       ELSE /\ wpc' = "exited"
            /\ UNCHANGED outbox
    /\ UNCHANGED clientVars
    /\ UNCHANGED serverVars
    /\ UNCHANGED <<inbox, inboxOwner>>
    /\ UNCHANGED ghostVars
    /\ UNCHANGED schedVars

\* server.c performCalculation, lines 176-184: intToStr(result), write, close
WorkerWrite ==
    /\ wpc = "write"
    /\ outbox' = [outbox EXCEPT ![WorkerTarget] = intToStr(Result(req))]
    /\ wpc' = "kill"
    /\ UNCHANGED clientVars
    /\ UNCHANGED serverVars
    /\ UNCHANGED <<inbox, inboxOwner>>
    /\ UNCHANGED ghostVars
    /\ UNCHANGED schedVars

\* the worker writing and notifying over again until a live requester takes it
WorkerNotify_Retries ==
    /\ wpc = "kill"
    /\ sigC' = [c \in Clients |-> IF Pid(c) = req.clientPID /\ ClientAlive(c) /\ pc[c] # "start" THEN TRUE ELSE sigC[c]]
    /\ wpc' = (IF \E c \in Clients : Pid(c) = req.clientPID /\ ClientAlive(c) THEN "exited" ELSE "write")
    /\ UNCHANGED <<pc, retries, alarmC, argv, reported>>
    /\ UNCHANGED serverVars
    /\ UNCHANGED <<inbox, inboxOwner, outbox>>
    /\ UNCHANGED ghostVars
    /\ UNCHANGED schedVars

\* server.c performCalculation line 187 and signalHandler lines 279-281: kill(clientPID, SIGUSR1), exit
WorkerNotify ==
    /\ wpc = "kill"
    /\ sigC' = [c \in Clients |-> IF Pid(c) = req.clientPID /\ ClientAlive(c) /\ pc[c] # "start" THEN TRUE ELSE sigC[c]]
    /\ wpc' = "exited"
    /\ UNCHANGED <<pc, retries, alarmC, argv, reported>>
    /\ UNCHANGED serverVars
    /\ UNCHANGED <<inbox, inboxOwner, outbox>>
    /\ UNCHANGED ghostVars
    /\ UNCHANGED schedVars

(* --------------------------- specification ----------------------------- *)
ClientStep(c) == ClientStart(c) \/ ClientCreate(c) \/ ClientWrite(c) \/ ClientNotify(c) \/ ClientSuspend(c) \/ ClientSignal(c) \/ ClientPoll(c) \/ ClientRead(c) \/ ClientRemove(c)

ServerStep == ServerOpen \/ ServerRead \/ ServerRemove \/ ServerParse \/ ServerFork \/ ServerWait

WorkerStep == WorkerCalc \/ WorkerWrite \/ WorkerNotify

Next == (\E c \in Clients : ClientStep(c) \/ ClientTimer(c)) \/ ServerStep \/ ServerTimer \/ WorkerStep

Spec == Init /\ [][Next]_vars

\* one client alone, over every request of the operand range
InitRT == InitWith({1}, AllArgs)

SpecRT == InitRT /\ [][Next]_vars

\* the kernel schedules every live client and delivers every armed alarm
FairClients == \A c \in Clients : WF_vars(ClientStep(c)) /\ WF_vars(ClientTimer(c))

\* the requests of the runs under fairness: one that is answered, a division by zero, an unknown operation
FairArgs == {[num1 |-> 5, operation |-> 1, num2 |-> 3], [num1 |-> 2, operation |-> 4, num2 |-> 0], [num1 |-> 1, operation |-> 5, num2 |-> 1]}

InitFair == InitWith(Clients, FairArgs)

FairSpec == InitFair /\ [][Next]_vars /\ FairClients

\* the kernel schedules the server and its worker
\* the requests used when the server's progress is considered
ServerArgs == {[num1 |-> 5, operation |-> 1, num2 |-> 3], [num1 |-> 10, operation |-> 4, num2 |-> 2]}

InitServer == InitWith(Clients, ServerArgs)

ServerFairSpec == InitServer /\ [][Next]_vars /\ WF_vars(ServerStep) /\ WF_vars(WorkerStep)

\* a SIGUSR1 from any other process reaches a client whose handler is installed
StrayNotify(c) ==
    /\ ClientAlive(c)
    /\ pc[c] # "start"
    /\ ~sigC[c]
    /\ sigC' = [sigC EXCEPT ![c] = TRUE]
    /\ UNCHANGED <<pc, retries, alarmC, argv, reported>>
    /\ UNCHANGED serverVars
    /\ UNCHANGED <<inbox, inboxOwner, outbox, wpc>>
    /\ UNCHANGED ghostVars
    /\ UNCHANGED schedVars

\* a SIGUSR1 from any other process reaches the server, whose handler serves every sender
ServerStray ==
    /\ ServerAlive
    /\ ~sigS
    /\ sigS' = TRUE
    /\ UNCHANGED <<spc, alarmS, isRequestReceived, buffer, req>>
    /\ UNCHANGED clientVars
    /\ UNCHANGED <<inbox, inboxOwner, outbox, wpc>>
    /\ UNCHANGED ghostVars
    /\ UNCHANGED schedVars

NextNoisy == Next \/ ServerStray

NextStray == Next \/ (\E c \in Clients : StrayNotify(c))

\* the requests used when stray notifications are considered
StrayArgs == {[num1 |-> 5, operation |-> 1, num2 |-> 3], [num1 |-> 2, operation |-> 4, num2 |-> 0]}

\* the clients differ only in their identity: the first one's request is fixed
InitStray == InitWith(Clients, StrayArgs) /\ argv[1] = [num1 |-> 5, operation |-> 1, num2 |-> 3]

StraySpec == InitStray /\ [][NextStray]_vars /\ FairClients

\* the protocol with notifications to the server that no request stands behind
NoisySpec == InitStray /\ [][NextNoisy]_vars

(* ------------------------- scheduler (main.c) -------------------------- *)
MAX_PROCESSES == 100

\* roundRobin: int timeQuantum = 2
timeQuantum == 2

\* bounds of the inputs tried exhaustively
MaxProcs == 3
MaxArrival == 3
MaxComputation == 3

\* bounds of the long inputs: a crowd arriving together, one long computation
CrowdSize == 15
LongRun == 201

\* the five functions main calls, in its order
Algorithms == {"fcfs", "lcfsNonPreemptive", "lcfsPreemptive", "roundRobin", "sjf"}

numProcesses == Len(processes)

\* readInputFile: remainingTime = computationTime, completionTime = 0
Loaded(p) == [arrivalTime |-> p.arrivalTime, computationTime |-> p.computationTime, remainingTime |-> p.computationTime, completionTime |-> 0]

compareArrival(a, b) == a.arrivalTime - b.arrivalTime

swap(arr, j, k) == [arr EXCEPT ![j] = arr[k], ![k] = arr[j]]

RECURSIVE BubblePass(_, _, _)
\* the inner loop of bSort over the (1-based) positions j..last
BubblePass(arr, j, last) == IF j > last THEN arr ELSE BubblePass(IF compareArrival(arr[j], arr[j + 1]) > 0 THEN swap(arr, j, j + 1) ELSE arr, j + 1, last)

RECURSIVE bSortFrom(_, _)
bSortFrom(arr, i) == IF i >= Len(arr) - 1 THEN arr ELSE bSortFrom(BubblePass(arr, 1, Len(arr) - i - 1), i + 1)

\* bSort(tempProcesses, numProcesses, compareArrival)
bSort(arr) == bSortFrom(arr, 0)

\* tempProcesses[i] for the 0-based index i of the code
Proc(i) == tempProcesses[i + 1]

IsReady(tp, i, now) == tp[i + 1].arrivalTime <= now /\ tp[i + 1].remainingTime > 0

RECURSIVE ReadyFrom(_, _, _)
\* the indices i = k..n-1, in the order of the for loop, that have arrived and are unfinished
ReadyFrom(tp, k, now) == IF k >= Len(tp) THEN <<>> ELSE (IF IsReady(tp, k, now) THEN <<k>> ELSE <<>>) \o ReadyFrom(tp, k + 1, now)

\* arr[k] = x on the cells written so far (k is at most one past the last of them)
WriteAt(arr, k, x) == IF k < Len(arr) THEN [arr EXCEPT ![k + 1] = x] ELSE Append(arr, x)

RECURSIVE PushAll(_, _, _)
\* stack[++top] = x for every x of xs in turn
PushAll(arr, t, xs) == IF xs = <<>> THEN arr ELSE PushAll(WriteAt(arr, t + 1, Head(xs)), t + 1, Tail(xs))

\* the dedup scan skipped: every ready process is queued again
InQueue_Never(q, f, r, x) == FALSE

\* roundRobin's scan "for (j = front; j <= rear; j++) if (queue[j] == i)"
InQueue(q, f, r, x) == \E j \in f..r : q[j + 1] = x

RECURSIVE RrAdmitFrom(_, _, _, _, _, _, _)
\* roundRobin's admission loop from index k on; skip is the running process (or -1)
RrAdmitFrom(tp, k, now, q, f, r, skip) ==
    IF k >= Len(tp) THEN [queue |-> q, rear |-> r]
    ELSE IF IsReady(tp, k, now) /\ ~InQueue(q, f, r, k) /\ k # skip
         THEN RrAdmitFrom(tp, k + 1, now, WriteAt(q, r + 1, k), f, r + 1, skip)
         ELSE RrAdmitFrom(tp, k + 1, now, q, f, r, skip)

\* the arrival times still ahead of currentTime
LaterArrivals == {tempProcesses[k].arrivalTime : k \in {j \in 1..Len(tempProcesses) : tempProcesses[j].arrivalTime > currentTime}}

NextArrival == CHOOSE a \in LaterArrivals : \A b \in LaterArrivals : a <= b

RECURSIVE SumTurnaround(_, _)
SumTurnaround(tp, k) == IF k > Len(tp) THEN 0 ELSE (tp[k].completionTime - tp[k].arrivalTime) + SumTurnaround(tp, k + 1)

\* calculateAverageTurnaround: the sum it divides by n
calculateAverageTurnaround(tp) == SumTurnaround(tp, 1)

AfterAlgorithm(a) == CASE a = "fcfs" -> "lcfsNonPreemptive" [] a = "lcfsNonPreemptive" -> "lcfsPreemptive" [] a = "lcfsPreemptive" -> "roundRobin" [] a = "roundRobin" -> "sjf" [] OTHER -> "done"

\* the process tables tried: every table of up to MaxProcs processes over
\* the small ranges, and three long ones
InputRows == [arrivalTime : 0..MaxArrival, computationTime : 1..MaxComputation]

SmallInputs == UNION {[1..n -> InputRows] : n \in 1..MaxProcs}

LongInputs == {[k \in 1..CrowdSize |-> [arrivalTime |-> 0, computationTime |-> 1]], <<[arrivalTime |-> 1, computationTime |-> LongRun]>>, <<[arrivalTime |-> 0, computationTime |-> LongRun]>>}

InitSched ==
    /\ IpcInit({}, ServerArgs)
    /\ processes \in SmallInputs \cup LongInputs
    /\ mpc = "fcfs"
    /\ lpc = "entry"
    /\ tempProcesses = <<>>
    /\ currentTime = 0
    /\ completed = 0
    /\ idx = 0
    /\ slots = <<>>
    /\ top = -1
    /\ front = 0
    /\ rear = -1
    /\ results = <<>>
    /\ cpu = <<>>
    /\ finishes = <<>>

\* process i is given n units of the CPU, and finishes if done
Given(i, n) == [cpu EXCEPT ![i + 1] = cpu[i + 1] + n]

Finished(i) == [finishes EXCEPT ![i + 1] = finishes[i + 1] + 1]

\* the head of each function: memcpy of the table, bSort (not in roundRobin), the locals
SchedStart ==
    /\ mpc \in Algorithms
    /\ lpc = "entry"
    /\ tempProcesses' = (IF mpc = "roundRobin" THEN [k \in 1..numProcesses |-> Loaded(processes[k])] ELSE bSort([k \in 1..numProcesses |-> Loaded(processes[k])]))
    /\ currentTime' = 0
    /\ completed' = 0
    /\ idx' = 0
    /\ slots' = <<>>
    /\ top' = -1
    /\ front' = 0
    /\ rear' = -1
    /\ cpu' = [k \in 1..numProcesses |-> 0]
    /\ finishes' = [k \in 1..numProcesses |-> 0]
    /\ lpc' = "loop"
    /\ UNCHANGED <<processes, mpc, results>>
    /\ UNCHANGED ipcVars

\* main.c fcfs, lines 211-220: one pass of the for loop, or its end
FcfsStep ==
    /\ mpc = "fcfs"
    /\ lpc = "loop"
    /\ IF idx < numProcesses
       THEN LET start == IF currentTime < Proc(idx).arrivalTime THEN Proc(idx).arrivalTime ELSE currentTime
                finish == start + Proc(idx).computationTime
            IN /\ currentTime' = finish
               /\ tempProcesses' = [tempProcesses EXCEPT ![idx + 1].completionTime = finish]
               /\ cpu' = Given(idx, Proc(idx).computationTime)
               /\ finishes' = Finished(idx)
               /\ idx' = idx + 1
               /\ lpc' = "loop"
       ELSE /\ lpc' = "return"
            /\ UNCHANGED <<currentTime, tempProcesses, cpu, finishes, idx>>
    /\ UNCHANGED <<processes, mpc, completed, slots, top, front, rear, results>>
    /\ UNCHANGED ipcVars

\* the while condition of the four other functions: completed < numProcesses fails
LoopExit ==
    /\ mpc \in {"lcfsNonPreemptive", "lcfsPreemptive", "roundRobin", "sjf"}
    /\ lpc = "loop"
    /\ completed >= numProcesses
    /\ lpc' = "return"
    /\ UNCHANGED <<processes, mpc, tempProcesses, currentTime, completed, idx, slots, top, front, rear, results, cpu, finishes>>
    /\ UNCHANGED ipcVars

\* the idle branch shared by the four functions: currentTime = nextArrival, or break
IdleAdvance(backTo) ==
    /\ IF LaterArrivals # {}
       THEN /\ currentTime' = NextArrival
            /\ lpc' = backTo
       ELSE /\ lpc' = "return"
            /\ UNCHANGED currentTime

\* main.c lcfsNonPreemptive, lines 260-266: push every arrived unfinished process
LcfsNpAdmit ==
    /\ mpc = "lcfsNonPreemptive"
    /\ lpc = "loop"
    /\ completed < numProcesses
    /\ LET ready == ReadyFrom(tempProcesses, 0, currentTime)
       IN IF top + Len(ready) >= MAX_PROCESSES
          THEN /\ mpc' = "undefined"
               /\ top' = MAX_PROCESSES
               /\ UNCHANGED <<slots, lpc>>
          ELSE /\ slots' = PushAll(slots, top, ready)
               /\ top' = top + Len(ready)
               /\ lpc' = "select"
               /\ UNCHANGED mpc
    /\ UNCHANGED <<processes, tempProcesses, currentTime, completed, idx, front, rear, results, cpu, finishes>>
    /\ UNCHANGED ipcVars

\* main.c lcfsNonPreemptive, lines 268-279: pop the top of the stack and run it to its end
LcfsNpRun ==
    /\ mpc = "lcfsNonPreemptive"
    /\ lpc = "select"
    /\ top >= 0
    /\ LET i == slots[top + 1]
           start == IF currentTime < Proc(i).arrivalTime THEN Proc(i).arrivalTime ELSE currentTime
           finish == start + Proc(i).computationTime
       IN /\ top' = top - 1
          /\ currentTime' = finish
          /\ tempProcesses' = [tempProcesses EXCEPT ![i + 1].completionTime = finish, ![i + 1].remainingTime = 0]
          /\ cpu' = Given(i, Proc(i).computationTime)
          /\ finishes' = Finished(i)
    /\ completed' = completed + 1
    /\ lpc' = "loop"
    /\ UNCHANGED <<processes, mpc, idx, slots, front, rear, results>>
    /\ UNCHANGED ipcVars

\* main.c lcfsNonPreemptive, lines 280-292: the stack is empty
LcfsNpIdle ==
    /\ mpc = "lcfsNonPreemptive"
    /\ lpc = "select"
    /\ top < 0
    /\ IdleAdvance("loop")
    /\ UNCHANGED <<processes, mpc, tempProcesses, completed, idx, slots, top, front, rear, results, cpu, finishes>>
    /\ UNCHANGED ipcVars

RECURSIVE LiveTop(_)
\* lcfsPreemptive's inner while: the topmost entry at or below t that is unfinished, or -1
LiveTop(t) == IF t < 0 THEN -1 ELSE IF Proc(slots[t + 1]).remainingTime > 0 THEN t ELSE LiveTop(t - 1)

\* main.c lcfsPreemptive, lines 335-351: drop finished entries, run the top one for one unit
LcfsPRun ==
    /\ mpc = "lcfsPreemptive"
    /\ lpc = "loop"
    /\ completed < numProcesses
    /\ LET t == LiveTop(top)
       IN IF t < 0
          THEN /\ top' = -1
               /\ UNCHANGED <<tempProcesses, currentTime, completed, cpu, finishes>>
          ELSE LET i == slots[t + 1]
                   left == Proc(i).remainingTime - 1
               IN /\ currentTime' = currentTime + 1
                  /\ cpu' = Given(i, 1)
                  /\ IF left = 0
                     THEN /\ tempProcesses' = [tempProcesses EXCEPT ![i + 1].remainingTime = 0, ![i + 1].completionTime = currentTime + 1]
                          /\ completed' = completed + 1
                          /\ top' = t - 1
                          /\ finishes' = Finished(i)
                     ELSE /\ tempProcesses' = [tempProcesses EXCEPT ![i + 1].remainingTime = left]
                          /\ top' = t
                          /\ UNCHANGED <<completed, finishes>>
    /\ lpc' = "idle"
    /\ UNCHANGED <<processes, mpc, idx, slots, front, rear, results>>
    /\ UNCHANGED ipcVars

\* main.c lcfsPreemptive, lines 354-367: if the stack is empty, advance to the next arrival or break
LcfsPIdle ==
    /\ mpc = "lcfsPreemptive"
    /\ lpc = "idle"
    /\ IF top < 0
       THEN IdleAdvance("admit")
       ELSE /\ lpc' = "admit"
            /\ UNCHANGED currentTime
    /\ UNCHANGED <<processes, mpc, tempProcesses, completed, idx, slots, top, front, rear, results, cpu, finishes>>
    /\ UNCHANGED ipcVars

\* main.c lcfsPreemptive, lines 370-375: push every arrived unfinished process
LcfsPAdmit ==
    /\ mpc = "lcfsPreemptive"
    /\ lpc = "admit"
    /\ LET ready == ReadyFrom(tempProcesses, 0, currentTime)
       IN IF top + Len(ready) >= MAX_PROCESSES
          THEN /\ mpc' = "undefined"
               /\ top' = MAX_PROCESSES
               /\ UNCHANGED <<slots, lpc>>
          ELSE /\ slots' = PushAll(slots, top, ready)
               /\ top' = top + Len(ready)
               /\ lpc' = "loop"
               /\ UNCHANGED mpc
    /\ UNCHANGED <<processes, tempProcesses, currentTime, completed, idx, front, rear, results, cpu, finishes>>
    /\ UNCHANGED ipcVars

\* main.c roundRobin, lines 424-440: queue every arrived unfinished process not yet queued
RrAdmit ==
    /\ mpc = "roundRobin"
    /\ lpc = "loop"
    /\ completed < numProcesses
    /\ LET got == RrAdmitFrom(tempProcesses, 0, currentTime, slots, front, rear, -1)
       IN IF got.rear >= MAX_PROCESSES
          THEN /\ mpc' = "undefined"
               /\ rear' = MAX_PROCESSES
               /\ UNCHANGED <<slots, lpc>>
          ELSE /\ slots' = got.queue
               /\ rear' = got.rear
               /\ lpc' = "select"
               /\ UNCHANGED mpc
    /\ UNCHANGED <<processes, tempProcesses, currentTime, completed, idx, top, front, results, cpu, finishes>>
    /\ UNCHANGED ipcVars

\* main.c roundRobin, lines 442-457: take the front of the queue and run it for a quantum at most
RrDispatch ==
    /\ mpc = "roundRobin"
    /\ lpc = "select"
    /\ front <= rear
    /\ LET i == slots[front + 1]
       IN /\ idx' = i
          /\ front' = front + 1
          /\ IF Proc(i).remainingTime <= timeQuantum
             THEN /\ currentTime' = currentTime + Proc(i).remainingTime
                  /\ tempProcesses' = [tempProcesses EXCEPT ![i + 1].completionTime = currentTime + Proc(i).remainingTime, ![i + 1].remainingTime = 0]
                  /\ cpu' = Given(i, Proc(i).remainingTime)
                  /\ finishes' = Finished(i)
                  /\ completed' = completed + 1
                  /\ lpc' = "loop"
             ELSE /\ currentTime' = currentTime + timeQuantum
                  /\ tempProcesses' = [tempProcesses EXCEPT ![i + 1].remainingTime = Proc(i).remainingTime - timeQuantum]
                  /\ cpu' = Given(i, timeQuantum)
                  /\ lpc' = "readmit"
                  /\ UNCHANGED <<finishes, completed>>
    /\ UNCHANGED <<processes, mpc, slots, top, rear, results>>
    /\ UNCHANGED ipcVars

\* main.c roundRobin, lines 459-473: queue the processes that arrived during the quantum
RrReadmit ==
    /\ mpc = "roundRobin"
    /\ lpc = "readmit"
    /\ LET got == RrAdmitFrom(tempProcesses, 0, currentTime, slots, front, rear, idx)
       IN IF got.rear >= MAX_PROCESSES
          THEN /\ mpc' = "undefined"
               /\ rear' = MAX_PROCESSES
               /\ UNCHANGED <<slots, lpc>>
          ELSE /\ slots' = got.queue
               /\ rear' = got.rear
               /\ lpc' = "requeue"
               /\ UNCHANGED mpc
    /\ UNCHANGED <<processes, tempProcesses, currentTime, completed, idx, top, front, results, cpu, finishes>>
    /\ UNCHANGED ipcVars

\* main.c roundRobin, line 475: queue[++rear] = i
RrRequeue ==
    /\ mpc = "roundRobin"
    /\ lpc = "requeue"
    /\ IF rear + 1 >= MAX_PROCESSES
       THEN /\ mpc' = "undefined"
            /\ rear' = MAX_PROCESSES
            /\ UNCHANGED <<slots, lpc>>
       ELSE /\ slots' = WriteAt(slots, rear + 1, idx)
            /\ rear' = rear + 1
            /\ lpc' = "loop"
            /\ UNCHANGED mpc
    /\ UNCHANGED <<processes, tempProcesses, currentTime, completed, idx, top, front, results, cpu, finishes>>
    /\ UNCHANGED ipcVars

\* main.c roundRobin, lines 477-492: the queue is empty
RrIdle ==
    /\ mpc = "roundRobin"
    /\ lpc = "select"
    /\ front > rear
    /\ IdleAdvance("loop")
    /\ UNCHANGED <<processes, mpc, tempProcesses, completed, idx, slots, top, front, rear, results, cpu, finishes>>
    /\ UNCHANGED ipcVars

\* sjf's scan: the first ready index of least remainingTime
ShortestIndex == LET ready == {i \in 0..(numProcesses - 1) : IsReady(tempProcesses, i, currentTime)}
                 IN IF ready = {} THEN -1 ELSE CHOOSE i \in ready : \A j \in ready : Proc(i).remainingTime < Proc(j).remainingTime \/ (Proc(i).remainingTime = Proc(j).remainingTime /\ i <= j)

\* main.c sjf, lines 539-574: run the shortest ready job to its end, or advance, or break
SjfStep ==
    /\ mpc = "sjf"
    /\ lpc = "loop"
    /\ completed < numProcesses
    /\ IF ShortestIndex = -1
       THEN /\ IdleAdvance("loop")
            /\ UNCHANGED <<tempProcesses, completed, cpu, finishes>>
       ELSE LET i == ShortestIndex
                finish == currentTime + Proc(i).remainingTime
            IN /\ currentTime' = finish
               /\ tempProcesses' = [tempProcesses EXCEPT ![i + 1].completionTime = finish, ![i + 1].remainingTime = 0]
               /\ cpu' = Given(i, Proc(i).remainingTime)
               /\ finishes' = Finished(i)
               /\ completed' = completed + 1
               /\ lpc' = "loop"
    /\ UNCHANGED <<processes, mpc, idx, slots, top, front, rear, results>>
    /\ UNCHANGED ipcVars

\* the return of each function into main's printf, and main's next call (main.c 609-615)
SchedReturn ==
    /\ mpc \in Algorithms
    /\ lpc = "return"
    /\ results' = Append(results, calculateAverageTurnaround(tempProcesses))
    /\ mpc' = AfterAlgorithm(mpc)
    /\ lpc' = "entry"
    /\ UNCHANGED <<processes, tempProcesses, currentTime, completed, idx, slots, top, front, rear, cpu, finishes>>
    /\ UNCHANGED ipcVars

NextSched == SchedStart \/ FcfsStep \/ LoopExit \/ LcfsNpAdmit \/ LcfsNpRun \/ LcfsNpIdle \/ LcfsPRun \/ LcfsPIdle \/ LcfsPAdmit \/ RrAdmit \/ RrDispatch \/ RrReadmit \/ RrRequeue \/ RrIdle \/ SjfStep \/ SchedReturn

SchedSpec == InitSched /\ [][NextSched]_vars

(* ------------------------------ claims --------------------------------- *)
Placed(c) == \E k \in 1..Len(placedSeq) : placedSeq[k] = c

Served(c) == \E k \in 1..Len(servedSeq) : servedSeq[k] = Pid(c)

\* the attempt of client c in this step failed: only a failed open counts a retry
FailedAttempt(c) == retries'[c] = retries[c] + 1

\* C1: between two server deletions of the inbox at most one exclusive create
\* succeeds; a failed attempt leaves the inbox and the server's pending
\* notification untouched and the client either retries or ends with the
\* contention failure; a client that writes, notifies or waits has placed
\* its own request.
C1_MutualExclusion ==
    /\ [](createsSinceDelete <= 1)
    /\ [](\A c \in Clients : pc[c] \in {"write", "kill", "suspend", "pause"} => Placed(c))
    /\ [][\A c \in Clients : FailedAttempt(c) => /\ inbox # NoFile /\ inbox' = inbox /\ inboxOwner' = inboxOwner
                                                  /\ inboxOwner # Pid(c)
                                                  /\ sigS' = sigS /\ notified' = notified /\ placedSeq' = placedSeq
                                                  /\ pc'[c] \in {"retry", "exit_contention"}]_vars

\* C1 witness: one client holds the inbox while another has failed an attempt
C1_Witness == \E c, d \in Clients : c # d /\ inboxOwner = Pid(c) /\ retries[d] > 0 /\ pc[d] = "retry"

\* C2 as stated: an existing inbox holds the request of exactly one client
C2_InboxHoldsOneRequest == inbox # NoFile => \E c \in Clients : /\ inboxOwner = Pid(c) /\ inbox = RequestText(c)
                                                                /\ \A d \in Clients : inbox = RequestText(d) => d = c

\* C2 amended: an existing inbox belongs to the one client whose exclusive
\* create succeeded; it is empty until that client writes (or for good when
\* the client ended before writing) and holds exactly that client's request
\* once written; while it exists its owner never changes and written content
\* never changes.
C2_InboxOneOwner ==
    /\ [](inbox # NoFile => \E c \in Clients : /\ inboxOwner = Pid(c) /\ Placed(c)
                                               /\ inbox \in {<<>>, RequestText(c)}
                                               /\ (pc[c] = "write" => inbox = <<>>)
                                               /\ (pc[c] \in {"kill", "suspend", "pause"} \/ c \in notified => inbox = RequestText(c)))
    /\ [][inbox # NoFile /\ inbox' # NoFile => /\ inboxOwner' = inboxOwner
                                              /\ (inbox' = inbox \/ inbox = <<>>)]_vars

\* C2 witness: the inbox holds one client's written request while another client is retrying
C2_Witness == \E c, d \in Clients : c # d /\ inboxOwner = Pid(c) /\ inbox = RequestText(c) /\ pc[d] = "retry" /\ retries[d] > 0

ValidArgs(a) == a.operation \in {1, 2, 3, 4} /\ (a.operation = 4 => a.num2 # 0)

\* the mathematically correct result of a valid request
Expected(a) == CASE a.operation = 1 -> a.num1 + a.num2 [] a.operation = 2 -> a.num1 - a.num2 [] a.operation = 3 -> a.num1 * a.num2 [] OTHER -> TruncDiv(a.num1, a.num2)

\* C3: a client that has reported a result for a valid request reported the
\* decimal text of operand1 (+,-,*,/) operand2, also when it is zero or negative.
C3_RoundTrip == \A c \in Clients : (reported[c] # NoText /\ ValidArgs(argv[c])) => reported[c] = Decimal(Expected(argv[c]))

\* C4: a result a client reports was computed from the request this client
\* placed; an outbox exists only for a client whose request a worker was
\* given and holds nothing but that client's result; a running worker holds
\* the request of the client it names.
C4_ResponseIsolation ==
    /\ \A c \in Clients : reported[c] # NoText => /\ Placed(c) /\ c \in notified /\ Served(c)
                                                  /\ HasResult(argv[c])
                                                  /\ reported[c] = intToStr(Result(argv[c]))
    /\ \A c \in Clients : outbox[Pid(c)] # NoFile => /\ Served(c)
                                                     /\ outbox[Pid(c)] \in {<<>>, intToStr(Result(argv[c]))}
    /\ wpc \in {"calc", "write", "kill"} => \E c \in Clients : /\ req.clientPID = Pid(c)
                                                               /\ req.num1 = argv[c].num1
                                                               /\ req.operation = argv[c].operation
                                                               /\ req.num2 = argv[c].num2
                                                               /\ (wpc \in {"write", "kill"} => outbox[Pid(c)] # NoFile)

\* C4 witness: two clients with different requests have both reported their results
C4_Witness == \E c, d \in Clients : c # d /\ argv[c] # argv[d] /\ reported[c] # NoText /\ reported[d] # NoText /\ reported[c] # reported[d]

\* C5: when every client of the race has a valid request and has ended with
\* a result, the clients were serviced one after the other in the order in
\* which they placed their requests and each reported its own correct result.
C5_RaceBothCorrect == (\A c \in Clients : ValidArgs(argv[c]) /\ pc[c] = "exit_result") => /\ Len(placedSeq) = NumClients
                                                                                         /\ servedSeq = [k \in 1..NumClients |-> Pid(placedSeq[k])]
                                                                                         /\ \A c \in Clients : reported[c] = Decimal(Expected(argv[c]))

\* C6: for a division by zero or an unknown operation code no outbox of the
\* requester ever exists, the requester is never notified and never reports
\* a result; the worker given such a request only terminates; and once the
\* requester has notified the server its call ends through the response-timeout.
C6_SilentNonDelivery ==
    /\ [](\A c \in Clients : ~ValidArgs(argv[c]) => /\ outbox[Pid(c)] = NoFile /\ ~sigC[c] /\ reported[c] = NoText
                                                    /\ pc[c] \notin {"poll", "read", "remove", "exit_result"})
    /\ [][(wpc = "calc" /\ ~ValidArgs(req)) => /\ wpc' \in {"calc", "exited"}
                                               /\ \A c \in Clients : Pid(c) = req.clientPID => outbox'[Pid(c)] = NoFile /\ ~sigC'[c]]_vars
    /\ \A c \in Clients : (~ValidArgs(argv[c]) /\ c \in notified) ~> (pc[c] = "exit_timeout")

\* C6 witness: the worker of a division by zero or unknown operation has
\* terminated and the requester, which had notified the server, ended by timeout
C6_Witness == \E c \in Clients : ~ValidArgs(argv[c]) /\ Served(c) /\ c \in notified /\ pc[c] = "exit_timeout" /\ wpc \in {"exited", "none"} /\ req.clientPID = Pid(c)

\* C7: a client that has ended its call with a result has no outbox and the
\* inbox does not hold its request.
C7_CleanupAfterSuccess == \A c \in Clients : pc[c] = "exit_result" => /\ outbox[Pid(c)] = NoFile
                                                                     /\ inboxOwner # Pid(c)
                                                                     /\ inbox # RequestText(c)

\* C7 witness: a client has ended with a result
C7_Witness == \E c \in Clients : pc[c] = "exit_result" /\ reported[c] # NoText

\* C8: a client that has placed its request and notified the server ends
\* its call; it ends with a result only when a worker was given its request,
\* and otherwise with the failure outcome, which after the notification only
\* the firing of the armed response-timeout produces.
C8_ResponseTimeout ==
    /\ \A c \in Clients : (c \in notified) ~> (pc[c] \in {"exit_timeout", "exit_result"})
    /\ [](\A c \in Clients : pc[c] \in {"read", "remove", "exit_result"} => Served(c))
    /\ [](\A c \in Clients : (c \in notified /\ ~Served(c) /\ ClientEnded(c)) => pc[c] = "exit_timeout")
    /\ [][\A c \in Clients : (c \in notified /\ ClientAlive(c) /\ pc'[c] \in {"exit_timeout", "exit_contention"}) => /\ alarmC[c] /\ ~alarmC'[c]
                                                                                                                  /\ pc'[c] = "exit_timeout"]_vars

\* C8 witness: a client that notified a server which never took its request ended by timeout
C8_Witness == \E c \in Clients : c \in notified /\ ~Served(c) /\ pc[c] = "exit_timeout" /\ inboxOwner = Pid(c)

\* C9: while a client polls for its outbox the response-timeout armed at the
\* start of the call is still armed, and every client call ends, whatever
\* the server and the workers do and whatever notifications arrive.
C9_BoundedPolling ==
    /\ [](\A c \in Clients : pc[c] = "poll" => alarmC[c])
    /\ \A c \in Clients : ClientAlive(c) ~> ClientEnded(c)

\* C9 witness: a notified client polls for an outbox that no worker creates
C9_Witness == \E c \in Clients : pc[c] = "poll" /\ outbox[Pid(c)] = NoFile /\ ~Served(c) /\ alarmC[c] /\ ~ServerAlive

\* C10: once the server has serviced a request and is idle again, a request
\* placed and notified by another client is drained, given to a worker of the
\* same server process and answered in the requester's outbox (a result that
\* is not negative as its decimal text), the requester being notified next.
C10_ServerLiveness ==
    \A c \in Clients : (/\ isRequestReceived /\ spc = "idle" /\ sigS /\ Len(servedSeq) >= 1 /\ ~Served(c)
                        /\ c \in notified /\ inboxOwner = Pid(c) /\ ValidArgs(argv[c]))
                       ~> (/\ ServerAlive /\ wpc = "kill" /\ req.clientPID = Pid(c)
                           /\ servedSeq[Len(servedSeq)] = Pid(c)
                           /\ outbox[Pid(c)] = intToStr(Expected(argv[c]))
                           /\ (Expected(argv[c]) >= 0 => outbox[Pid(c)] = Decimal(Expected(argv[c]))))

\* C10 witness: (5,Add,3) was answered 8 to one client, then (10,Div,2) is answered 5 to another
C10_Witness == \E c, d \in Clients : /\ c # d /\ servedSeq = <<Pid(d), Pid(c)>>
                                     /\ argv[d] = [num1 |-> 5, operation |-> 1, num2 |-> 3] /\ reported[d] = <<"8">> /\ pc[d] = "exit_result"
                                     /\ argv[c] = [num1 |-> 10, operation |-> 4, num2 |-> 2]
                                     /\ wpc = "kill" /\ outbox[Pid(c)] = <<"5">> /\ alarmS = FALSE /\ ServerAlive

\* the idle-timeout fires in this step
IdleTimeoutFires == alarmS /\ ~alarmS'

WorkerRunning == wpc \in {"calc", "write", "kill"}

\* C11: a firing of the idle-timeout ends the server exactly when no request
\* has been marked as seen; once a request has been processed (a worker was
\* spawned for it) the server never terminates, and a terminated server
\* has marked and processed no request.
C11_IdleTimeoutAsymmetry ==
    /\ [][IdleTimeoutFires => (IF isRequestReceived THEN spc' = spc /\ ServerAlive' ELSE spc' = "exited")]_vars
    /\ [](Len(servedSeq) >= 1 => ServerAlive /\ isRequestReceived)
    /\ [](spc = "exited" => ~isRequestReceived /\ servedSeq = <<>> /\ ~alarmS)

\* C11 witness: the idle-timeout has fired after a request was processed and the server lives on
C11_Witness == isRequestReceived /\ Len(servedSeq) >= 1 /\ ~alarmS /\ ServerAlive /\ spc = "idle" /\ wpc = "none"

\* the requester named in the content the server has read
BufferPid == LET t == Tokens(buffer, <<>>, <<>>) IN IF t = <<>> THEN 0 ELSE atoi(t[1])

\* C12: from the deletion on, through parsing, spawning and the whole run of
\* the worker, the inbox no longer holds the request being handled: it is
\* absent or already belongs to another client, so an exclusive create that
\* fails meanwhile fails against another client's request, never against the
\* one being computed.
C12_InboxFreedBeforeComputation ==
    /\ [](spc \in {"parse", "fork", "wait"} => inboxOwner # BufferPid)
    /\ [](wpc # "none" => spc = "wait" /\ req.clientPID = BufferPid /\ inboxOwner # req.clientPID)
    /\ [][(wpc = "none" /\ wpc' # "none") => spc = "fork" /\ inboxOwner # BufferPid]_vars
    /\ [][\A d \in Clients : (FailedAttempt(d) /\ wpc # "none") => inboxOwner \notin {0, req.clientPID}]_vars

\* C12 witness: while the worker of one request runs, another client has
\* created the inbox, written its request and sent its notification
C12_Witness == \E c, d \in Clients : c # d /\ WorkerRunning /\ req.clientPID = Pid(c) /\ inboxOwner = Pid(d) /\ inbox = RequestText(d) /\ d \in notified /\ sigS

\* C13: a worker exists only while the server waits for it; the server is
\* idle, draining or spawning only when no worker exists, and a worker is
\* spawned only when none exists.
C13_OneComputationInFlight ==
    /\ [](wpc # "none" => spc = "wait")
    /\ [](spc \in {"idle", "read", "remove", "parse", "fork"} => wpc = "none")
    /\ [][(wpc' = "calc" /\ wpc # "calc") => wpc = "none"]_vars
    /\ [][(spc = "idle" /\ spc' = "read") => wpc = "none"]_vars

\* C13 witness: a further notification is pending while the worker of the current request runs
C13_Witness == WorkerRunning /\ spc = "wait" /\ sigS /\ inboxOwner \notin {0, req.clientPID} /\ Len(servedSeq) = 1

ServedBefore(c, d) == \E i, j \in 1..Len(servedSeq) : i < j /\ servedSeq[i] = Pid(c) /\ servedSeq[j] = Pid(d)

\* C14: after the worker of a division by zero or unknown operation has
\* ended in failure, the server is still running and a valid request of
\* another client serviced afterwards is reported with its correct result.
C14_WorkerFailureIsolation ==
    \A c, d \in Clients : (/\ c # d /\ ~ValidArgs(argv[c]) /\ ValidArgs(argv[d])
                           /\ ServedBefore(c, d) /\ reported[d] # NoText)
                          => (ServerAlive /\ reported[d] = Decimal(Expected(argv[d])))

\* C15: content that does not parse into four fields never brings the
\* server process down.
C15_ServerSurvivesMalformed == [][(spc = "parse" /\ Len(Tokens(buffer, <<>>, <<>>)) < 4) => spc' # "crashed"]_vars

\* C16: a client whose notification cannot be delivered, the server process
\* being gone, does not go on to suspend and wait for a response.
C16_UnreachableServerFails == [][\A c \in Clients : (pc[c] = "kill" /\ ~ServerAlive) => pc'[c] \notin {"suspend", "pause"}]_vars

\* C17: a client never counts more than 10 failed attempts; it ends with the
\* contention failure exactly on its 10th failed attempt, and then it has
\* placed no request and sent no notification, and that last step leaves
\* the inbox of the other client and the server's pending notification as
\* they were.
C17_ContentionExhaustion ==
    /\ [](\A c \in Clients : /\ retries[c] <= 10
                              /\ (retries[c] = 10 <=> pc[c] = "exit_contention")
                              /\ (pc[c] = "exit_contention" => ~Placed(c) /\ c \notin notified /\ reported[c] = NoText))
    /\ [][\A c \in Clients : (pc'[c] = "exit_contention" /\ pc[c] # "exit_contention")
                              => /\ pc[c] = "retry" /\ retries[c] = 9 /\ inboxOwner \notin {0, Pid(c)}
                                 /\ inbox' = inbox /\ inboxOwner' = inboxOwner /\ sigS' = sigS /\ notified' = notified]_vars
    /\ [][\A c \in Clients : pc[c] = "exit_contention" => pc'[c] = "exit_contention" /\ retries'[c] = retries[c]]_vars

\* C17 witness: a client has ended after its 10th failed attempt while another client's inbox stands
C17_Witness == \E c, d \in Clients : c # d /\ pc[c] = "exit_contention" /\ retries[c] = 10 /\ inboxOwner = Pid(d) /\ ~Placed(c)

\* C18: once the call of a client that placed and notified its request has
\* ended, neither its request in the inbox nor its outbox exists.
C18_NothingOutlivesTheCall == \A c \in Clients : (c \in notified /\ ClientEnded(c)) => (inboxOwner # Pid(c) /\ outbox[Pid(c)] = NoFile)

\* C19: an idle-timeout that fires while the server is draining the inbox
\* or dispatching (anywhere between opening the inbox and the return of its
\* handler) does not terminate the server.
C19_IdleTimeoutOnlyFromIdle == [][(IdleTimeoutFires /\ spc \in {"read", "remove", "parse", "fork", "wait"}) => ServerAlive']_vars

\* C20: the server does not terminate between reading a client's request
\* from the inbox and spawning the worker for it, and at most one client
\* has notified the server without its request having been drained.
C20_NoRequestLost ==
    /\ \A c \in Clients : (c \in notified /\ buffer = RequestText(c) /\ ~Served(c)) => ServerAlive
    /\ Cardinality({c \in Clients : c \in notified /\ inboxOwner = Pid(c) /\ ServerAlive}) <= 1

\* the inbox holds the fully written request of a client that has sent its notification
NotifiedFull == \E c \in notified : inboxOwner = Pid(c) /\ inbox = RequestText(c)

\* C21: with only protocol-following clients, a notification pending at the
\* live server, the start of its handler, and the handler's read and remove
\* always find the inbox present with the fully written request of a client
\* that has sent its notification; the handler never finds the inbox missing
\* or created but not yet written.
C21_NotificationFindsRequest ==
    /\ []((sigS /\ ServerAlive) => NotifiedFull)
    /\ [](spc = "read" => NotifiedFull)
    /\ [](spc = "remove" => (NotifiedFull /\ buffer = inbox))
    /\ [][(spc = "idle" /\ spc' # "idle" /\ ~IdleTimeoutFires) => (NotifiedFull /\ spc' = "read")]_vars

\* C21 witness: the handler has started for the second request and found it whole
C21_Witness == spc = "read" /\ Len(servedSeq) = 1 /\ NotifiedFull /\ wpc = "none"

\* the worker of client c's request has not finished writing the outbox
WorkerWriting(c) == req.clientPID = Pid(c) /\ wpc \in {"calc", "write"}

Answered(c) == Served(c) /\ outbox[Pid(c)] # NoFile /\ ~(req.clientPID = Pid(c) /\ wpc \in {"calc", "write", "kill"})

\* C23: a response notification that reaches the client between its kill()
\* and its pause() starts the handler all the same: the client is never left
\* in main, suspended or about to suspend, with the notification gone; it
\* goes through reading, reporting and deleting its outbox, and ends (by
\* the result, or by the alarm firing before the handler disarms it).
C23_NoLostWakeUp ==
    /\ [](\A c \in wokenEarly : pc[c] \in {"poll", "read", "remove", "exit_result", "exit_timeout"})
    /\ [](\A c \in wokenEarly : pc[c] = "exit_result" => (reported[c] = intToStr(Expected(argv[c])) /\ outbox[Pid(c)] = NoFile))
    /\ [](\A c \in Clients : (pc[c] \in {"suspend", "pause"} /\ Answered(c)) => sigC[c])
    /\ \A c \in Clients : (c \in wokenEarly) ~> ClientEnded(c)

\* C23 witness: a client woken before it suspended has ended with its result reported and its outbox deleted
C23_Witness == \E c \in wokenEarly : pc[c] = "exit_result" /\ reported[c] = <<"8">> /\ outbox[Pid(c)] = NoFile

NoDup(seq) == \A i, j \in 1..Len(seq) : i # j => seq[i] # seq[j]

\* C24: no client places a second request or sends a second notification,
\* and the workers spawned are, one for one and in order, the requests
\* placed: never more workers than requests, none for the same request twice.
C24_AtMostOnce ==
    /\ [](NoDup(placedSeq) /\ NoDup(servedSeq))
    /\ [](Len(servedSeq) <= Len(placedSeq))
    /\ [](\A k \in 1..Len(servedSeq) : servedSeq[k] = Pid(placedSeq[k]))
    /\ [](\A c \in notified : Placed(c) /\ pc[c] \notin {"start", "retry", "write", "kill"})
    /\ [][\A c \in Clients : (c \notin notified /\ c \in notified') => pc[c] = "kill"]_vars
    /\ [][(wpc' = "calc" /\ wpc # "calc") => (Len(servedSeq') = Len(servedSeq) + 1 /\ Len(servedSeq) < Len(placedSeq))]_vars

\* C24 witness: two requests were placed and each was dispatched once
C24_Witness == Len(placedSeq) = 2 /\ Len(servedSeq) = 2 /\ notified = Clients /\ spc = "idle" /\ wpc = "none"

\* C25: the text a worker has written to the outbox is the decimal text of
\* its result, and atoi of that text is the result, for positive, zero and
\* negative results.
C25_SerializationRoundTrip == (wpc = "kill" /\ WorkerTarget \in Pids) => (outbox[WorkerTarget] = Decimal(Result(req)) /\ atoi(outbox[WorkerTarget]) = Result(req))

\* C26: a worker makes one notification attempt and ends, a worker that has
\* ended is only reaped, and every dispatch brings the server back to idle
\* with no worker left, whether or not the requester still exists.
C26_DispatchCompletes ==
    /\ [][(wpc = "kill" /\ wpc' # wpc) => wpc' = "exited"]_vars
    /\ [][wpc = "exited" => wpc' \in {"exited", "none"}]_vars
    /\ (wpc \in {"calc", "write", "kill"}) ~> (wpc = "exited")
    /\ (spc = "wait") ~> (spc = "idle" /\ wpc = "none")

\* C26 witness: the dispatch for a requester that had timed out has completed
C26_Witness == \E c \in Clients : pc[c] = "exit_timeout" /\ req.clientPID = Pid(c) /\ Served(c) /\ outbox[Pid(c)] # NoFile /\ spc = "idle" /\ wpc = "none"

\* the server's drain step: remove("toServer.txt") in signalHandler
ServerDrains == spc = "remove" /\ spc' = "parse"

\* C27: an existing inbox disappears only by the server's drain step; until
\* then it keeps its owner, and its content changes only once, by the owner
\* writing its request into the file it has just created; no other client
\* step (failed create, exhausted retries, notification, timeout, result)
\* touches it.
C27_OnlyServerRemovesInbox ==
    /\ [][(inbox # NoFile /\ inbox' = NoFile) => ServerDrains]_vars
    /\ [][(inbox # NoFile /\ ~ServerDrains) => inboxOwner' = inboxOwner]_vars
    /\ [][(inbox \notin {NoFile, <<>>} /\ ~ServerDrains) => inbox' = inbox]_vars
    /\ [][(inbox = <<>> /\ inbox' # inbox) => \E c \in Clients : pc[c] = "write" /\ inboxOwner = Pid(c) /\ inbox' = RequestText(c) /\ pc'[c] = "kill"]_vars

\* C27 witness: one client has timed out and the other has exhausted its retries, and the inbox still holds the request
C27_Witness == \E c, d \in Clients : pc[c] = "exit_timeout" /\ pc[d] = "exit_contention" /\ inboxOwner = Pid(c) /\ inbox = RequestText(c)

Running == mpc \in Algorithms

\* C28: when any of the five functions returns, every process of the table
\* has been given exactly its computationTime of CPU, has finished exactly
\* once, and has completionTime >= arrivalTime + computationTime.
C28_SchedulerCompleteness ==
    (Running /\ lpc = "return") => \A k \in 1..numProcesses : /\ cpu[k] = tempProcesses[k].computationTime
                                                               /\ finishes[k] = 1
                                                               /\ tempProcesses[k].completionTime >= tempProcesses[k].arrivalTime + tempProcesses[k].computationTime

\* C29: no push writes at an index of MAX_PROCESSES or more: top and rear
\* stay below MAX_PROCESSES and no function runs into a write outside its array.
C29_IndexInBounds == mpc # "undefined" /\ top < MAX_PROCESSES /\ rear < MAX_PROCESSES

\* C30: in every state of roundRobin the live entries queue[front..rear]
\* name each process at most once, and none of them has remainingTime = 0.
C30_QueueNoDuplicates ==
    mpc = "roundRobin" => /\ \A j, k \in front..rear : j # k => slots[j + 1] # slots[k + 1]
                          /\ \A j \in front..rear : slots[j + 1] \in 0..(numProcesses - 1) /\ Proc(slots[j + 1]).remainingTime > 0

\* C30 witness: the live queue holds two processes, one of them queued again after a quantum
C30_Witness == mpc = "roundRobin" /\ lpc = "loop" /\ front >= 1 /\ rear - front >= 1 /\ \E j \in front..rear : cpu[slots[j + 1] + 1] > 0

\* C31: once main has run the five functions on a table, the total turnaround
\* returned by sjf is at most the total returned by each of fcfs,
\* lcfsNonPreemptive, lcfsPreemptive and roundRobin on the same table.
C31_SjfOptimality == (mpc = "done" /\ Len(results) = 5) => \A k \in 1..4 : results[5] <= results[k]

====
